---- MODULE Spec2Model ----
(***************************************************************************)
(* Model of ChartGPU's LTTB downsampler (src/data/lttbSample.ts) and of    *)
(* its animation controller (createAnimationController).                   *)
(*                                                                         *)
(* Arrays are TLA+ sequences; the source's 0-based index i is element      *)
(* i + 1 of the sequence.  Coordinates are small integers, on which the    *)
(* sampler's double arithmetic is exact.  bucketSize = (n-2)/(t-2) is kept *)
(* as the fraction it is: Math.floor(bucketSize * k) is                    *)
(* ((n-2)*k) \div (t-2), which is what the doubles give for every n below  *)
(* 17 (the first n at which the rounded product falls under an integer).   *)
(* The lookahead average sum/count is kept as the pair (sum, count) and    *)
(* the area metric is compared multiplied by count (> 0).                  *)
(*                                                                         *)
(* update() is modelled step by step, split where it calls onUpdate and    *)
(* onComplete: while a callback runs the caller may call animate, cancel   *)
(* and cancelAll (not update).  The animated values are floating-point     *)
(* numbers of Precision bits, so that the rounding of each operation of    *)
(* from + (to - from) * t is part of the model.                            *)
(***************************************************************************)
EXTENDS Integers, Sequences, FiniteSets, TLC

\* ------------------------------------------------------------------ bounds
MaxN == 5          \* longest input with every choice of coordinates, in points
MaxLongN == 17     \* longest input, in points
MaxNonFiniteN == 4 \* longest input with coordinates that are not finite
MaxTarget == 6     \* largest targetPoints tried
Coords == 0..1     \* the coordinate values tried

\* ----------------------------------------------------------------- helpers
Min(a, b) == IF a < b THEN a ELSE b
Max(a, b) == IF a > b THEN a ELSE b

\* Int32Array(n) filled by "indices[i] = i"
RECURSIVE Iota(_)
Iota(n) == IF n <= 0 THEN <<>> ELSE Append(Iota(n - 1), n - 1)

\* Math.floor of the fraction num/den, den > 0
MathFloor(num, den) == num \div den

\* the fraction bits of a number (an IEEE 754 double)
FractionBits == 52

\* the largest e with den * 2^e <= num, for num >= den > 0
RECURSIVE Log2Floor(_, _)
Log2Floor(num, den) == IF 2 * den > num THEN 0 ELSE 1 + Log2Floor(num, 2 * den)

\* 2^j % m, thirteen doublings at a time
RECURSIVE Pow2Mod(_, _)
Pow2Mod(j, m) ==
  IF j <= 13 THEN 2^j % m ELSE ((2^13 % m) * Pow2Mod(j - 13, m)) % m

\* const bucketSize = (n - 2) / (targetPoints - 2): the quotient a / d is
\* rounded to the nearest double (ties to even); the result is
\* a / d + err / (d * 2^(FractionBits - exp)), kept as [a, d, exp, err]
bucketSize(n, targetPoints) ==
  LET a == n - 2
      d == targetPoints - 2
      exp == Log2Floor(a, d)
      residue == (a * Pow2Mod(FractionBits - exp, 2 * d)) % (2 * d)
      rho == residue % d
  IN  [a |-> a, d |-> d, exp |-> exp,
       err |-> IF rho = 0 THEN 0
               ELSE IF 2 * rho < d \/ (2 * rho = d /\ residue < d) THEN -rho
               ELSE d - rho]

\* mutant: the bucket width counts the end points, n / (targetPoints - 2)
FloorBucket_n(n, targetPoints, k) == MathFloor(n * k, targetPoints - 2)

\* Math.floor(bucketSize * k): the product is rounded to the nearest double
\* again. It is below the exact a * k / d by less than 1 / d, so its floor
\* is the exact one unless a * k / d is an integer v and the rounded
\* product is below v: bucketSize is below a / d, and the error of the
\* product is more than half the distance from v to the double before it
FloorBucket(n, targetPoints, k) ==
  LET v == MathFloor((n - 2) * k, targetPoints - 2)
      bs == bucketSize(n, targetPoints)
      ev == Log2Floor(v, 1)
      below == IF v = 2^ev THEN 4 ELSE 2
  IN  IF k = 0 \/ ((n - 2) * k) % (targetPoints - 2) # 0 THEN v
      ELSE IF bs.err >= 0 THEN v
      ELSE IF (-bs.err) * k * 2^bs.exp * below > bs.d * 2^ev THEN v - 1
      ELSE v

\* ------------------------------------------- bucket ranges (both variants)
\* let rangeStart / rangeEndExclusive, with the defensive adjustment
\* mutant: the range starts at Math.floor(bucketSize * bucket), without the + 1
rangeStart_from0(n, targetPoints, bucket) ==
  LET lastIndex == n - 1
      rs == FloorBucket(n, targetPoints, bucket)
      re == Min(FloorBucket(n, targetPoints, bucket + 1) + 1, lastIndex)
  IN  IF rs >= re THEN Min(rs, lastIndex - 1) ELSE rs

rangeStart(n, targetPoints, bucket) ==
  LET lastIndex == n - 1
      rs == FloorBucket(n, targetPoints, bucket) + 1
      re == Min(FloorBucket(n, targetPoints, bucket + 1) + 1, lastIndex)
  IN  IF rs >= re THEN Min(rs, lastIndex - 1) ELSE rs

rangeEndExclusive(n, targetPoints, bucket) ==
  LET lastIndex == n - 1
      rs == FloorBucket(n, targetPoints, bucket) + 1
      re == Min(FloorBucket(n, targetPoints, bucket + 1) + 1, lastIndex)
  IN  IF rs >= re THEN Min(Min(rs, lastIndex - 1) + 1, lastIndex) ELSE re

nextRangeStart(n, targetPoints, bucket) ==
  FloorBucket(n, targetPoints, bucket + 1) + 1

nextRangeEndExclusive(n, targetPoints, bucket) ==
  Min(FloorBucket(n, targetPoints, bucket + 2) + 1, n - 1)

\* ---------------------------------------------------- coordinate numbers
\* A coordinate is a number: an integer of the model, or one of NaN,
\* +Infinity and -Infinity, held as three integers beyond every finite value
\* that the model computes.
Huge == 2^20
PlusInfinity == Huge
MinusInfinity == -Huge
NotANumber == Huge + 1

NumIsNaN(v) == v = NotANumber
NumIsInfinite(v) == v = PlusInfinity \/ v = MinusInfinity
NumIsFinite(v) == ~NumIsNaN(v) /\ ~NumIsInfinite(v)

\* -v, a + b, a - b, a * b, a < b, a > b, a >= b on numbers
NumNeg(v) == IF NumIsNaN(v) THEN NotANumber ELSE -v
NumAdd(v, w) ==
  IF NumIsFinite(v) /\ NumIsFinite(w) THEN v + w
  ELSE IF NumIsNaN(v) \/ NumIsNaN(w) THEN NotANumber
  ELSE IF NumIsInfinite(v) /\ NumIsInfinite(w) THEN (IF v = w THEN v ELSE NotANumber)
  ELSE IF NumIsInfinite(v) THEN v
  ELSE w
NumSub(v, w) == NumAdd(v, NumNeg(w))
NumMul(v, w) ==
  IF NumIsFinite(v) /\ NumIsFinite(w) THEN v * w
  ELSE IF NumIsNaN(v) \/ NumIsNaN(w) THEN NotANumber
  ELSE IF v = 0 \/ w = 0 THEN NotANumber
  ELSE IF (v > 0) = (w > 0) THEN PlusInfinity
  ELSE MinusInfinity
NumLt(v, w) == ~NumIsNaN(v) /\ ~NumIsNaN(w) /\ v < w
NumGt(v, w) == ~NumIsNaN(v) /\ ~NumIsNaN(w) /\ v > w
NumGe(v, w) == ~NumIsNaN(v) /\ ~NumIsNaN(w) /\ v >= w

\* const absArea2 = area2 < 0 ? -area2 : area2
Abs(v) == IF NumLt(v, 0) THEN NumNeg(v) ELSE v

\* area2 = (ax - avgX) * (by - ay) - (ax - bx) * (avgY - ay), times cnt,
\* where avgX = sumX / cnt and avgY = sumY / cnt
area2(ax, ay, bx, by, sumX, sumY, cnt) ==
  NumSub(NumMul(NumSub(NumMul(ax, cnt), sumX), NumSub(by, ay)),
         NumMul(NumSub(ax, bx), NumSub(sumY, NumMul(ay, cnt))))

\* ------------------------------------------------ interleaved Float32Array
\* data[i * 2 + 0], data[i * 2 + 1]
XYx(data, i) == data[i * 2 + 1]
XYy(data, i) == data[i * 2 + 2]

\* sumX / sumY / avgCount over [i, endExclusive)
RECURSIVE SumXY(_, _, _)
SumXY(data, i, endExclusive) ==
  IF i >= endExclusive THEN <<0, 0, 0>>
  ELSE LET r == SumXY(data, i + 1, endExclusive)
       IN  <<NumAdd(XYx(data, i), r[1]), NumAdd(XYy(data, i), r[2]), r[3] + 1>>

\* the average point of the next bucket as <<sumX, sumY, count>>;
\* the last point when the next bucket is empty
AvgXY(data, n, targetPoints, bucket) ==
  LET lastIndex == n - 1
      ns == nextRangeStart(n, targetPoints, bucket)
      ne == nextRangeEndExclusive(n, targetPoints, bucket)
  IN  IF ns < ne /\ SumXY(data, ns, ne)[3] > 0
        THEN SumXY(data, ns, ne)
        ELSE <<XYx(data, lastIndex), XYy(data, lastIndex), 1>>

\* mutant: a later candidate of equal area displaces the earlier one (>=)
RECURSIVE ScanXY_ge(_, _, _, _, _, _, _)
ScanXY_ge(data, a, avg, i, endExclusive, maxArea, maxIndex) ==
  IF i >= endExclusive THEN maxIndex
  ELSE LET absArea2 == Abs(area2(XYx(data, a), XYy(data, a),
                                 XYx(data, i), XYy(data, i),
                                 avg[1], avg[2], avg[3]))
       IN  IF NumGe(absArea2, maxArea)
             THEN ScanXY_ge(data, a, avg, i + 1, endExclusive, absArea2, i)
             ELSE ScanXY_ge(data, a, avg, i + 1, endExclusive, maxArea, maxIndex)

\* mutant: the test is !(absArea2 <= maxArea), which NaN passes
RECURSIVE ScanXY_notLe(_, _, _, _, _, _, _)
ScanXY_notLe(data, a, avg, i, endExclusive, maxArea, maxIndex) ==
  IF i >= endExclusive THEN maxIndex
  ELSE LET absArea2 == Abs(area2(XYx(data, a), XYy(data, a),
                                 XYx(data, i), XYy(data, i),
                                 avg[1], avg[2], avg[3]))
       IN  IF ~NumGe(maxArea, absArea2)
             THEN ScanXY_notLe(data, a, avg, i + 1, endExclusive, absArea2, i)
             ELSE ScanXY_notLe(data, a, avg, i + 1, endExclusive, maxArea, maxIndex)

\* the candidate scan: for (i = rangeStart; i < rangeEndExclusive; i++);
\* maxArea is carried multiplied by avg[3]
RECURSIVE ScanXY(_, _, _, _, _, _, _)
ScanXY(data, a, avg, i, endExclusive, maxArea, maxIndex) ==
  IF i >= endExclusive THEN maxIndex
  ELSE LET absArea2 == Abs(area2(XYx(data, a), XYy(data, a),
                                 XYx(data, i), XYy(data, i),
                                 avg[1], avg[2], avg[3]))
       IN  IF NumGt(absArea2, maxArea)
             THEN ScanXY(data, a, avg, i + 1, endExclusive, absArea2, i)
             ELSE ScanXY(data, a, avg, i + 1, endExclusive, maxArea, maxIndex)

\* mutant: the bucket loop runs once more (bucket <= targetPoints - 2)
RECURSIVE BucketsXY_extra(_, _, _, _, _)
BucketsXY_extra(data, n, targetPoints, bucket, a) ==
  IF bucket > targetPoints - 2 THEN <<>>
  ELSE LET avg == AvgXY(data, n, targetPoints, bucket)
           rs == rangeStart(n, targetPoints, bucket)
           maxIndex == ScanXY(data, a, avg, rs,
                              rangeEndExclusive(n, targetPoints, bucket),
                              -1 * avg[3], rs)
       IN  <<maxIndex>> \o BucketsXY_extra(data, n, targetPoints, bucket + 1, maxIndex)

\* the bucket loop: for (bucket = 0; bucket < targetPoints - 2; bucket++);
\* yields the indices written to slots 1 .. targetPoints - 2
RECURSIVE BucketsXY(_, _, _, _, _)
BucketsXY(data, n, targetPoints, bucket, a) ==
  IF bucket >= targetPoints - 2 THEN <<>>
  ELSE LET avg == AvgXY(data, n, targetPoints, bucket)
           rs == rangeStart(n, targetPoints, bucket)
           maxIndex == ScanXY(data, a, avg, rs,
                              rangeEndExclusive(n, targetPoints, bucket),
                              -1 * avg[3], rs)
       IN  <<maxIndex>> \o BucketsXY(data, n, targetPoints, bucket + 1, maxIndex)

\* mutant: indices[targetPoints - 1] is never set and keeps the array's 0
lttbIndicesForInterleavedXY_noLast(data, targetPoints) ==
  LET n == Len(data) \div 2
      lastIndex == n - 1
  IN  IF targetPoints <= 0 \/ n = 0 THEN <<>>
      ELSE IF targetPoints = 1 THEN <<0>>
      ELSE IF targetPoints = 2 THEN (IF n >= 2 THEN <<0, lastIndex>> ELSE <<0>>)
      ELSE IF n <= targetPoints THEN Iota(n)
      ELSE <<0>> \o BucketsXY(data, n, targetPoints, 0, 0) \o <<0>>

lttbIndicesForInterleavedXY(data, targetPoints) ==
  LET n == Len(data) \div 2
      lastIndex == n - 1
  IN  IF targetPoints <= 0 \/ n = 0 THEN <<>>
      ELSE IF targetPoints = 1 THEN <<0>>
      ELSE IF targetPoints = 2 THEN (IF n >= 2 THEN <<0, lastIndex>> ELSE <<0>>)
      ELSE IF n <= targetPoints THEN Iota(n)
      ELSE <<0>> \o BucketsXY(data, n, targetPoints, 0, 0) \o <<lastIndex>>

\* ------------------------------------------------- ReadonlyArray<DataPoint>
\* A DataPoint is a tuple [x, y], modelled as the function "0" :> x @@ "1" :> y,
\* or an object {x, y}, modelled as the record [x |-> x, y |-> y].
TuplePoint(x, y) == ("0" :> x) @@ ("1" :> y)
ObjectPoint(x, y) == [x |-> x, y |-> y]

\* Array.isArray(point)
isTupleDataPoint(point) == "0" \in DOMAIN point

\* isTupleDataPoint(p) ? p[0] : p.x   and   isTupleDataPoint(p) ? p[1] : p.y
DPx(data, i) == LET p == data[i + 1] IN IF isTupleDataPoint(p) THEN p["0"] ELSE p.x
DPy(data, i) == LET p == data[i + 1] IN IF isTupleDataPoint(p) THEN p["1"] ELSE p.y

RECURSIVE SumDP(_, _, _)
SumDP(data, i, endExclusive) ==
  IF i >= endExclusive THEN <<0, 0, 0>>
  ELSE LET r == SumDP(data, i + 1, endExclusive)
       IN  <<NumAdd(DPx(data, i), r[1]), NumAdd(DPy(data, i), r[2]), r[3] + 1>>

AvgDP(data, n, targetPoints, bucket) ==
  LET lastIndex == n - 1
      ns == nextRangeStart(n, targetPoints, bucket)
      ne == nextRangeEndExclusive(n, targetPoints, bucket)
  IN  IF ns < ne /\ SumDP(data, ns, ne)[3] > 0
        THEN SumDP(data, ns, ne)
        ELSE <<DPx(data, lastIndex), DPy(data, lastIndex), 1>>

\* mutant: a later candidate of equal area displaces the earlier one (>=)
RECURSIVE ScanDP_ge(_, _, _, _, _, _, _)
ScanDP_ge(data, a, avg, i, endExclusive, maxArea, maxIndex) ==
  IF i >= endExclusive THEN maxIndex
  ELSE LET absArea2 == Abs(area2(DPx(data, a), DPy(data, a),
                                 DPx(data, i), DPy(data, i),
                                 avg[1], avg[2], avg[3]))
       IN  IF NumGe(absArea2, maxArea)
             THEN ScanDP_ge(data, a, avg, i + 1, endExclusive, absArea2, i)
             ELSE ScanDP_ge(data, a, avg, i + 1, endExclusive, maxArea, maxIndex)

RECURSIVE ScanDP(_, _, _, _, _, _, _)
ScanDP(data, a, avg, i, endExclusive, maxArea, maxIndex) ==
  IF i >= endExclusive THEN maxIndex
  ELSE LET absArea2 == Abs(area2(DPx(data, a), DPy(data, a),
                                 DPx(data, i), DPy(data, i),
                                 avg[1], avg[2], avg[3]))
       IN  IF NumGt(absArea2, maxArea)
             THEN ScanDP(data, a, avg, i + 1, endExclusive, absArea2, i)
             ELSE ScanDP(data, a, avg, i + 1, endExclusive, maxArea, maxIndex)

\* mutant: the anchor stays point 0 ("a = maxIndex" is missing)
RECURSIVE BucketsDP_anchor0(_, _, _, _, _)
BucketsDP_anchor0(data, n, targetPoints, bucket, a) ==
  IF bucket >= targetPoints - 2 THEN <<>>
  ELSE LET avg == AvgDP(data, n, targetPoints, bucket)
           rs == rangeStart(n, targetPoints, bucket)
           maxIndex == ScanDP(data, a, avg, rs,
                              rangeEndExclusive(n, targetPoints, bucket),
                              -1 * avg[3], rs)
       IN  <<maxIndex>> \o BucketsDP_anchor0(data, n, targetPoints, bucket + 1, a)

RECURSIVE BucketsDP(_, _, _, _, _)
BucketsDP(data, n, targetPoints, bucket, a) ==
  IF bucket >= targetPoints - 2 THEN <<>>
  ELSE LET avg == AvgDP(data, n, targetPoints, bucket)
           rs == rangeStart(n, targetPoints, bucket)
           maxIndex == ScanDP(data, a, avg, rs,
                              rangeEndExclusive(n, targetPoints, bucket),
                              -1 * avg[3], rs)
       IN  <<maxIndex>> \o BucketsDP(data, n, targetPoints, bucket + 1, maxIndex)

\* mutant: targetPoints 2 is answered like targetPoints 1
lttbIndicesForDataPoints_oneOrTwo(data, targetPoints) ==
  LET n == Len(data)
      lastIndex == n - 1
  IN  IF targetPoints <= 0 \/ n = 0 THEN <<>>
      ELSE IF targetPoints <= 2 THEN <<0>>
      ELSE IF n <= targetPoints THEN Iota(n)
      ELSE <<0>> \o BucketsDP(data, n, targetPoints, 0, 0) \o <<lastIndex>>

lttbIndicesForDataPoints(data, targetPoints) ==
  LET n == Len(data)
      lastIndex == n - 1
  IN  IF targetPoints <= 0 \/ n = 0 THEN <<>>
      ELSE IF targetPoints = 1 THEN <<0>>
      ELSE IF targetPoints = 2 THEN (IF n >= 2 THEN <<0, lastIndex>> ELSE <<0>>)
      ELSE IF n <= targetPoints THEN Iota(n)
      ELSE <<0>> \o BucketsDP(data, n, targetPoints, 0, 0) \o <<lastIndex>>

\* ------------------------------------------------------------- lttbSample
\* A buffer or array is [ref, kind, elems]: ref is the object's identity,
\* kind is "Float32Array" (elems = x0, y0, x1, y1, ...) or "Array"
\* (elems = DataPoints).  A freshly allocated result takes the next ref.
\* targetPoints is the fraction <<numerator, denominator>>.

\* out[i * 2 + 0] = data[idx * 2 + 0]; out[i * 2 + 1] = data[idx * 2 + 1]
RECURSIVE GatherXY(_, _)
GatherXY(elems, indices) ==
  IF indices = <<>> THEN <<>>
  ELSE <<XYx(elems, Head(indices)), XYy(elems, Head(indices))>>
         \o GatherXY(elems, Tail(indices))

\* out[i] = data[indices[i]]
GatherDP(elems, indices) == [i \in 1..Len(indices) |-> elems[indices[i] + 1]]

\* mutant: the result is always gathered into a new buffer or array
lttbSample_copy(data, targetPoints) ==
  LET threshold == MathFloor(targetPoints[1], targetPoints[2])
      fresh == data.ref + 1
  IN  IF data.kind = "Float32Array"
        THEN LET n == Len(data.elems) \div 2
             IN  IF threshold <= 0 \/ n = 0
                   THEN [ref |-> fresh, kind |-> "Float32Array", elems |-> <<>>]
                 ELSE [ref |-> fresh, kind |-> "Float32Array",
                       elems |-> GatherXY(data.elems,
                                   lttbIndicesForInterleavedXY(data.elems, threshold))]
        ELSE LET n == Len(data.elems)
             IN  IF threshold <= 0 \/ n = 0
                   THEN [ref |-> fresh, kind |-> "Array", elems |-> <<>>]
                 ELSE [ref |-> fresh, kind |-> "Array",
                       elems |-> GatherDP(data.elems,
                                   lttbIndicesForDataPoints(data.elems, threshold))]

\* mutant: the empty result needs both conditions (&& for ||)
lttbSample_and(data, targetPoints) ==
  LET threshold == MathFloor(targetPoints[1], targetPoints[2])
      fresh == data.ref + 1
  IN  IF data.kind = "Float32Array"
        THEN LET n == Len(data.elems) \div 2
             IN  IF threshold <= 0 /\ n = 0
                   THEN [ref |-> fresh, kind |-> "Float32Array", elems |-> <<>>]
                 ELSE IF n <= threshold THEN data
                 ELSE [ref |-> fresh, kind |-> "Float32Array",
                       elems |-> GatherXY(data.elems,
                                   lttbIndicesForInterleavedXY(data.elems, threshold))]
        ELSE LET n == Len(data.elems)
             IN  IF threshold <= 0 /\ n = 0
                   THEN [ref |-> fresh, kind |-> "Array", elems |-> <<>>]
                 ELSE IF n <= threshold THEN data
                 ELSE [ref |-> fresh, kind |-> "Array",
                       elems |-> GatherDP(data.elems,
                                   lttbIndicesForDataPoints(data.elems, threshold))]

lttbSample(data, targetPoints) ==
  LET threshold == MathFloor(targetPoints[1], targetPoints[2])
      fresh == data.ref + 1
  IN  IF data.kind = "Float32Array"
        THEN LET n == Len(data.elems) \div 2
             IN  IF threshold <= 0 \/ n = 0
                   THEN [ref |-> fresh, kind |-> "Float32Array", elems |-> <<>>]
                 ELSE IF n <= threshold THEN data
                 ELSE [ref |-> fresh, kind |-> "Float32Array",
                       elems |-> GatherXY(data.elems,
                                   lttbIndicesForInterleavedXY(data.elems, threshold))]
        ELSE LET n == Len(data.elems)
             IN  IF threshold <= 0 \/ n = 0
                   THEN [ref |-> fresh, kind |-> "Array", elems |-> <<>>]
                 ELSE IF n <= threshold THEN data
                 ELSE [ref |-> fresh, kind |-> "Array",
                       elems |-> GatherDP(data.elems,
                                   lttbIndicesForDataPoints(data.elems, threshold))]

\* ------------------------------------- the divisions a call evaluates
\* the divisors of "(n - 2) / (targetPoints - 2)" that a call of an index
\* function evaluates: none when an early return is taken
\* mutant: without the early return for targetPoints === 2
DivisorsXY_noTwo(data, targetPoints) ==
  LET n == Len(data) \div 2
  IN  IF targetPoints <= 0 \/ n = 0 THEN {}
      ELSE IF targetPoints = 1 THEN {}
      ELSE IF n <= targetPoints THEN {}
      ELSE {targetPoints - 2}

DivisorsXY(data, targetPoints) ==
  LET n == Len(data) \div 2
  IN  IF targetPoints <= 0 \/ n = 0 THEN {}
      ELSE IF targetPoints = 1 THEN {}
      ELSE IF targetPoints = 2 THEN {}
      ELSE IF n <= targetPoints THEN {}
      ELSE {targetPoints - 2}

DivisorsDP(data, targetPoints) ==
  LET n == Len(data)
  IN  IF targetPoints <= 0 \/ n = 0 THEN {}
      ELSE IF targetPoints = 1 THEN {}
      ELSE IF targetPoints = 2 THEN {}
      ELSE IF n <= targetPoints THEN {}
      ELSE {targetPoints - 2}

\* the divisors a call of lttbSample evaluates, in the index function it calls
lttbSampleDivisors(data, targetPoints) ==
  LET threshold == MathFloor(targetPoints[1], targetPoints[2])
  IN  IF data.kind = "Float32Array"
        THEN LET n == Len(data.elems) \div 2
             IN  IF threshold <= 0 \/ n = 0 THEN {}
                 ELSE IF n <= threshold THEN {}
                 ELSE DivisorsXY(data.elems, threshold)
        ELSE LET n == Len(data.elems)
             IN  IF threshold <= 0 \/ n = 0 THEN {}
                 ELSE IF n <= threshold THEN {}
                 ELSE DivisorsDP(data.elems, threshold)

\* ------------------------------------------------ the sampler's callers
VARIABLES data,           \* the caller's input buffer or array
          targetPoints,   \* the budget of the first call
          sampled,        \* lttbSample(data, targetPoints)
          targetPoints2,  \* the budget of the second call
          resampled,      \* lttbSample(sampled, targetPoints2)
          stage           \* "input", "sampled" or "resampled"

lttbVars == <<data, targetPoints, sampled, targetPoints2, resampled, stage>>

\* the animation controller's state
VARIABLES animations,   \* the Map: AnimationId -> AnimationInternal
          nextId,       \* the next Symbol('Animation')
          updateCalls,  \* update() calls made so far
          pc,           \* "idle", or where update() stands: "loop", "onUpdate", "onComplete"
          ts,           \* update: the normalized timestamp
          ids,          \* update: the snapshot of IDs still to visit
          cur,          \* update: id, anim, startTime, shouldComplete of the iteration
          completes,    \* per animation: onComplete invocations
          lastValue,    \* per animation: the value last passed to onUpdate
          cancelled,    \* per animation: cancelled while it was running
          registeredNow, \* per animation: animate() was called for it by a
                         \* callback of the update() call in progress
          cancelledNow   \* per animation: cancelled, while it was running, by a
                         \* callback of the update() call in progress

animVars == <<animations, nextId, updateCalls, pc, ts, ids, cur,
              completes, lastValue, cancelled, registeredNow, cancelledNow>>

None == [ref |-> -1, kind |-> "none", elems |-> <<>>]

\* the point sequences of up to MaxN points
PointSeqs == UNION {[1..n -> Coords \X Coords] : n \in 0..MaxN}

RECURSIVE Interleave(_)
Interleave(pts) ==
  IF pts = <<>> THEN <<>> ELSE <<Head(pts)[1], Head(pts)[2]>> \o Interleave(Tail(pts))

\* the encodings of a point sequence: an interleaved buffer (of even length,
\* or with a dangling last slot), an array of tuples, an array of objects
EncodingNames == {"interleaved", "interleaved+1", "tuples", "objects"}
Encode(pts, enc) ==
  CASE enc = "interleaved" ->
         [ref |-> 0, kind |-> "Float32Array", elems |-> Interleave(pts)]
    [] enc = "interleaved+1" ->
         [ref |-> 0, kind |-> "Float32Array", elems |-> Append(Interleave(pts), 0)]
    [] enc = "tuples" ->
         [ref |-> 0, kind |-> "Array",
          elems |-> [i \in 1..Len(pts) |-> TuplePoint(pts[i][1], pts[i][2])]]
    [] enc = "objects" ->
         [ref |-> 0, kind |-> "Array",
          elems |-> [i \in 1..Len(pts) |-> ObjectPoint(pts[i][1], pts[i][2])]]

\* budgets: the integers -1 .. MaxTarget and the fractions -1/2, 1/2, 7/2
Budgets == {<<t, 1>> : t \in -1..MaxTarget} \cup {<<-1, 2>>, <<1, 2>>, <<7, 2>>}
IntBudgets == {<<t, 1>> : t \in 0..MaxTarget}

\* a longer input: n points of a zigzag, x = 0, 1, 2, ...
LongPoints(n) == [i \in 1..n |-> <<i - 1, (i - 1) % 2>>]

\* the budgets of a longer input: those that reduce it
LongBudgets(n) == {<<t, 1>> : t \in 3..(n - 1)}

LttbInit ==
  /\ \/ /\ \E pts \in PointSeqs, enc \in EncodingNames : data = Encode(pts, enc)
        /\ targetPoints \in Budgets
     \/ \E n \in (MaxN + 1)..MaxLongN, enc \in EncodingNames :
          /\ data = Encode(LongPoints(n), enc)
          /\ targetPoints \in LongBudgets(n)
  /\ sampled = None
  /\ targetPoints2 = <<0, 1>>
  /\ resampled = None
  /\ stage = "input"

\* const sampled = lttbSample(input, TARGET)
Sample ==
  /\ stage = "input"
  /\ sampled' = lttbSample(data, targetPoints)
  /\ stage' = "sampled"
  /\ UNCHANGED <<data, targetPoints, targetPoints2, resampled>>
  /\ UNCHANGED animVars

\* the reduced sequence is sampled again, at any budget
Resample ==
  /\ stage = "sampled"
  /\ \E k2 \in IntBudgets :
       /\ targetPoints2' = k2
       /\ resampled' = lttbSample(sampled, k2)
  /\ stage' = "resampled"
  /\ UNCHANGED <<data, targetPoints, sampled>>
  /\ UNCHANGED animVars

\* inputs with NaN and Infinity among the coordinates, at the budgets that
\* reduce them through the bucket loop
NonFiniteXs == {0, 1, PlusInfinity}
NonFiniteYs == {0, 1, NotANumber}
NonFinitePointSeqs ==
  UNION {[1..n -> NonFiniteXs \X NonFiniteYs] : n \in 4..MaxNonFiniteN}

NonFiniteInit ==
  /\ \E pts \in NonFinitePointSeqs, enc \in {"interleaved", "objects"} :
       /\ data = Encode(pts, enc)
       /\ targetPoints \in LongBudgets(Len(pts))
  /\ sampled = None
  /\ targetPoints2 = <<0, 1>>
  /\ resampled = None
  /\ stage = "input"

LttbNext == Sample \/ Resample

\* ------------------------------------------------------ numbers (doubles)
\* A timestamp or duration is <<tag, v>>: tag "finite" with the value v in
\* milliseconds, or "NaN" / "Infinity" / "-Infinity" (v = 0).
Finite(v) == <<"finite", v>>
NaN == <<"NaN", 0>>
Infinity == <<"Infinity", 0>>

\* Number.isFinite
isFinite(x) == x[1] = "finite"

\* The animated values are binary floating-point numbers with Precision
\* significant bits (53 in a double), counted in units of 1/One: the integer
\* v stands for v / One.  Every arithmetic result is rounded to the nearest
\* such number, ties to the even significand.
Precision == 3
One == 2

RECURSIVE Pow2(_)
Pow2(k) == IF k <= 0 THEN 1 ELSE 2 * Pow2(k - 1)

\* a / b rounded to the nearest integer, ties to even (a >= 0, b > 0)
RoundHalfEven(a, b) ==
  LET q == a \div b
      r == a % b
  IN  IF 2 * r < b THEN q
      ELSE IF 2 * r > b THEN q + 1
      ELSE IF q % 2 = 0 THEN q ELSE q + 1

\* the spacing of the representable numbers around a / b
RECURSIVE Ulp(_, _, _)
Ulp(a, b, s) == IF a < Pow2(Precision) * b * s THEN s ELSE Ulp(a, b, 2 * s)

\* the fraction num / den (den > 0) rounded to a representable number
Fl(num, den) ==
  LET a == Abs(num)
      s == Ulp(a, den, 1)
      m == RoundHalfEven(a, den * s) * s
  IN  IF num < 0 THEN -m ELSE m

FAdd(a, b) == Fl(a + b, 1)
FSub(a, b) == Fl(a - b, 1)
FMul(a, b) == Fl(a * b, One)

\* anim.from + (anim.to - anim.from) * t
Lerp(from, to, t) == FAdd(from, FMul(FSub(to, from), t))

\* ------------------------------------------------- createAnimationController
MaxAnims == 2      \* animations ever started
MaxUpdates == 3    \* update() calls

AnimIds == 1..MaxAnims
NoCur == [id |-> 0, anim |-> <<>>, startTime |-> <<"null", 0>>, elapsed |-> 0,
          shouldComplete |-> FALSE]

\* the animate() arguments tried, <<from, to, duration, onComplete given>>,
\* with from and to in units of 1/One: 0 to 4, -0.5 to 4, [0, 0] to [4, 2]
ScalarArgs == {<<0, 8, Finite(1), TRUE>>, <<-1, 8, Finite(1), TRUE>>,
               <<0, 8, Finite(0), FALSE>>, <<0, 8, Infinity, TRUE>>}
ArrayArgs == {<<<<0, 0>>, <<8, 4>>, Finite(1), TRUE>>, <<<<0, 0>>, <<8, 4>>, NaN, TRUE>>}
Timestamps == {Finite(0), Finite(1), NaN}
\* what the caller's easing function may return: 0 or 1/2
EasingResults == {0, 1}

AnimInit ==
  /\ animations = <<>>
  /\ nextId = 1
  /\ updateCalls = 0
  /\ pc = "idle"
  /\ ts = Finite(0)
  /\ ids = <<>>
  /\ cur = NoCur
  /\ completes = [i \in AnimIds |-> 0]
  /\ lastValue = [i \in AnimIds |-> <<>>]
  /\ cancelled = [i \in AnimIds |-> FALSE]
  /\ registeredNow = [i \in AnimIds |-> FALSE]
  /\ cancelledNow = [i \in AnimIds |-> FALSE]

\* the caller runs between update() calls or inside a callback of update()
CallerRuns == pc \in {"idle", "onUpdate", "onComplete"}

\* animations.delete(id) / animations.set(id, anim)
MapDelete(map, id) == [k \in DOMAIN map \ {id} |-> map[k]]
MapSet(map, id, anim) == [k \in DOMAIN map \cup {id} |-> IF k = id THEN anim ELSE map[k]]

\* the animation is in its own onComplete: it has completed
Completing(id) == pc = "onComplete" /\ cur.id = id

\* records a cancellation of the animations in S that are still running
NoteCancelled(S) ==
  /\ cancelled' = [i \in AnimIds |->
                     cancelled[i] \/ (i \in S /\ i \in DOMAIN animations /\ ~Completing(i))]
  /\ cancelledNow' = [i \in AnimIds |->
                       cancelledNow[i] \/ (/\ pc # "idle"
                                          /\ i \in S
                                          /\ i \in DOMAIN animations
                                          /\ ~Completing(i))]

\* mutant: update() walks the live Map, which visits entries added meanwhile
Animate_live(kind, from, to, duration, hasOnComplete) ==
  /\ CallerRuns
  /\ nextId <= MaxAnims
  /\ animations' = MapSet(animations, nextId,
                     [kind |-> kind, from |-> from, to |-> to, duration |-> duration,
                      hasOnComplete |-> hasOnComplete, startTime |-> <<"null", 0>>])
  /\ nextId' = nextId + 1
  /\ registeredNow' = [registeredNow EXCEPT ![nextId] = pc # "idle"]
  /\ ids' = IF pc = "idle" THEN ids ELSE Append(ids, nextId)
  /\ UNCHANGED <<updateCalls, pc, ts, cur, completes, lastValue, cancelled, cancelledNow>>
  /\ UNCHANGED lttbVars

\* animate(from, to, duration, easing, onUpdate, onComplete?)
Animate(kind, from, to, duration, hasOnComplete) ==
  /\ CallerRuns
  /\ nextId <= MaxAnims
  /\ animations' = MapSet(animations, nextId,
                     [kind |-> kind, from |-> from, to |-> to, duration |-> duration,
                      hasOnComplete |-> hasOnComplete, startTime |-> <<"null", 0>>])
  /\ nextId' = nextId + 1
  /\ registeredNow' = [registeredNow EXCEPT ![nextId] = pc # "idle"]
  /\ UNCHANGED <<updateCalls, pc, ts, ids, cur, completes, lastValue, cancelled, cancelledNow>>
  /\ UNCHANGED lttbVars

AnimateScalar ==
  \E args \in ScalarArgs : Animate("scalar", args[1], args[2], args[3], args[4])

AnimateArray ==
  \E args \in ArrayArgs : Animate("array", args[1], args[2], args[3], args[4])

\* mutant: cancel() leaves the Map as it is
Cancel_keep(id) ==
  /\ CallerRuns
  /\ id < nextId
  /\ NoteCancelled({id})
  /\ UNCHANGED <<animations, nextId, updateCalls, pc, ts, ids, cur, completes, lastValue, registeredNow>>
  /\ UNCHANGED lttbVars

\* cancel(animationId), with an id animate() has returned
Cancel(id) ==
  /\ CallerRuns
  /\ id < nextId
  /\ animations' = MapDelete(animations, id)
  /\ NoteCancelled({id})
  /\ UNCHANGED <<nextId, updateCalls, pc, ts, ids, cur, completes, lastValue, registeredNow>>
  /\ UNCHANGED lttbVars

\* cancelAll()
CancelAll ==
  /\ CallerRuns
  /\ animations' = <<>>
  /\ NoteCancelled(AnimIds)
  /\ UNCHANGED <<nextId, updateCalls, pc, ts, ids, cur, completes, lastValue, registeredNow>>
  /\ UNCHANGED lttbVars

\* normalizeDurationMs(anim.duration)
normalizeDurationMs(duration) == IF isFinite(duration) THEN duration[2] ELSE 0

\* mutant: ts - startTime, without Math.max(0, ...)
Elapsed_noMax(timestamp, startTime) == timestamp[2] - startTime[2]

\* Math.max(0, ts - startTime)
Elapsed(timestamp, startTime) == Max(0, timestamp[2] - startTime[2])

\* durationMs <= 0 || elapsed >= durationMs
ShouldComplete(anim, timestamp, startTime) ==
  LET durationMs == normalizeDurationMs(anim.duration)
  IN  durationMs <= 0 \/ Elapsed(timestamp, startTime) >= durationMs

\* the value passed to onUpdate, as the list of its numbers
ValueAt(anim, t) ==
  IF anim.kind = "scalar"
    THEN <<Lerp(anim.from, anim.to, t)>>
    ELSE [i \in 1..Len(anim.from) |-> Lerp(anim.from[i], anim.to[i], t)]

\* Array.from(animations.keys()): the live ids in insertion order
RECURSIVE Keys(_, _)
Keys(map, from) ==
  IF from > MaxAnims THEN <<>>
  ELSE IF from \in DOMAIN map THEN <<from>> \o Keys(map, from + 1)
  ELSE Keys(map, from + 1)

\* update(timestamp): a timestamp that is not finite returns at once
UpdateCall ==
  /\ pc = "idle"
  /\ updateCalls < MaxUpdates
  /\ updateCalls' = updateCalls + 1
  /\ \E timestamp \in Timestamps :
       IF ~isFinite(timestamp) \/ Keys(animations, 1) = <<>>
         THEN UNCHANGED <<pc, ts, ids>>
         ELSE /\ ts' = timestamp
              /\ ids' = Keys(animations, 1)
              /\ pc' = "loop"
  /\ UNCHANGED <<animations, nextId, cur, completes, lastValue, cancelled, registeredNow, cancelledNow>>
  /\ UNCHANGED lttbVars

\* the end of one iteration of "for (const id of ids)"
Continue ==
  /\ ids' = Tail(ids)
  /\ pc' = IF Tail(ids) = <<>> THEN "idle" ELSE "loop"
  /\ registeredNow' = IF Tail(ids) = <<>> THEN [i \in AnimIds |-> FALSE] ELSE registeredNow
  /\ cancelledNow' = IF Tail(ids) = <<>> THEN [i \in AnimIds |-> FALSE] ELSE cancelledNow

\* if (!anim) continue; // cancelled
LoopSkip ==
  /\ pc = "loop"
  /\ Head(ids) \notin DOMAIN animations
  /\ Continue
  /\ UNCHANGED <<animations, nextId, updateCalls, ts, cur, completes,
                 lastValue, cancelled>>
  /\ UNCHANGED lttbVars

\* one iteration up to the call of anim.onUpdate
LoopOnUpdate ==
  /\ pc = "loop"
  /\ Head(ids) \in DOMAIN animations
  /\ LET id == Head(ids)
         anim == animations[id]
         startTime == IF anim.startTime[1] = "null" THEN ts ELSE anim.startTime
         shouldComplete == ShouldComplete(anim, ts, startTime)
     IN  /\ animations' = IF anim.startTime[1] = "null"
                            THEN MapSet(animations, id, [anim EXCEPT !.startTime = startTime])
                            ELSE animations
         /\ \E t \in IF shouldComplete THEN {One} ELSE EasingResults :
               lastValue' = [lastValue EXCEPT ![id] = ValueAt(anim, t)]
         /\ cur' = [id |-> id, anim |-> anim, startTime |-> startTime,
                     elapsed |-> Elapsed(ts, startTime),
                     shouldComplete |-> shouldComplete]
         /\ pc' = "onUpdate"
  /\ UNCHANGED <<nextId, updateCalls, ts, ids, completes, cancelled, registeredNow, cancelledNow>>
  /\ UNCHANGED lttbVars

\* mutant: without "if (!animations.has(id)) continue" after onUpdate
OnUpdateReturn_noHas ==
  /\ pc = "onUpdate"
  /\ IF cur.shouldComplete /\ cur.anim.hasOnComplete
       THEN /\ completes' = [completes EXCEPT ![cur.id] = @ + 1]
            /\ pc' = "onComplete"
            /\ UNCHANGED <<animations, ids, registeredNow, cancelledNow>>
       ELSE /\ animations' = IF cur.shouldComplete
                               THEN MapDelete(animations, cur.id) ELSE animations
            /\ Continue
            /\ UNCHANGED completes
  /\ UNCHANGED <<nextId, updateCalls, ts, cur, lastValue, cancelled>>
  /\ UNCHANGED lttbVars

\* anim.onUpdate has returned:  if (!animations.has(id)) continue;
\* if (shouldComplete) { anim.onComplete?.(); animations.delete(id); }
OnUpdateReturn ==
  /\ pc = "onUpdate"
  /\ IF cur.id \in DOMAIN animations /\ cur.shouldComplete /\ cur.anim.hasOnComplete
       THEN /\ completes' = [completes EXCEPT ![cur.id] = @ + 1]
            /\ pc' = "onComplete"
            /\ UNCHANGED <<animations, ids, registeredNow, cancelledNow>>
       ELSE /\ animations' = IF cur.shouldComplete
                               THEN MapDelete(animations, cur.id) ELSE animations
            /\ Continue
            /\ UNCHANGED completes
  /\ UNCHANGED <<nextId, updateCalls, ts, cur, lastValue, cancelled>>
  /\ UNCHANGED lttbVars

\* mutant: the completed animation stays in the Map
OnCompleteReturn_noDelete ==
  /\ pc = "onComplete"
  /\ Continue
  /\ UNCHANGED <<animations, nextId, updateCalls, ts, cur, completes, lastValue, cancelled>>
  /\ UNCHANGED lttbVars

\* anim.onComplete has returned:  animations.delete(id)
OnCompleteReturn ==
  /\ pc = "onComplete"
  /\ animations' = MapDelete(animations, cur.id)
  /\ Continue
  /\ UNCHANGED <<nextId, updateCalls, ts, cur, completes, lastValue, cancelled>>
  /\ UNCHANGED lttbVars

AnimNext ==
  \/ AnimateScalar
  \/ AnimateArray
  \/ \E id \in AnimIds : Cancel(id)
  \/ CancelAll
  \/ UpdateCall
  \/ LoopSkip
  \/ LoopOnUpdate
  \/ OnUpdateReturn
  \/ OnCompleteReturn

\* ---------------------------------------------------------- specifications
vars == <<lttbVars, animVars>>

\* the sampler's calls (no animation runs)
Init == LttbInit /\ AnimInit

Spec == Init /\ [][LttbNext]_vars

\* the animation controller (no sampling)
LttbIdle ==
  /\ data = None
  /\ targetPoints = <<0, 1>>
  /\ sampled = None
  /\ targetPoints2 = <<0, 1>>
  /\ resampled = None
  /\ stage = "input"

AnimSpecInit == LttbIdle /\ AnimInit

AnimSpec == AnimSpecInit /\ [][AnimNext]_vars

\* the sampler alone, on inputs with coordinates that are not finite
NonFiniteSpecInit == NonFiniteInit /\ AnimInit
NonFiniteSpec == NonFiniteSpecInit /\ [][Sample]_vars

\* ====================================================== properties: sampler
\* the number of points of a buffer or array
NumPoints(buf) ==
  IF buf.kind = "Float32Array" THEN Len(buf.elems) \div 2 ELSE Len(buf.elems)

\* point i of a buffer (its two slots) or of an array (the element itself)
Pt(buf, i) ==
  IF buf.kind = "Float32Array"
    THEN <<XYx(buf.elems, i), XYy(buf.elems, i)>>
    ELSE buf.elems[i + 1]

PtX(buf, i) ==
  IF buf.kind = "Float32Array" THEN XYx(buf.elems, i) ELSE DPx(buf.elems, i)

PtY(buf, i) ==
  IF buf.kind = "Float32Array" THEN XYy(buf.elems, i) ELSE DPy(buf.elems, i)

\* the (x, y) pairs a buffer or array holds
Coordinates(buf) == [i \in 1..NumPoints(buf) |-> <<PtX(buf, i - 1), PtY(buf, i - 1)>>]

Threshold(tp) == MathFloor(tp[1], tp[2])

\* the elements of a set of indices in increasing order
\* out[k ..] is a subsequence of in[i ..]: each point of out is matched with
\* the first point of in that equals it, at strictly increasing indices
RECURSIVE Embeds(_, _, _, _)
Embeds(in, out, i, k) ==
  IF k >= NumPoints(out) THEN TRUE
  ELSE IF i >= NumPoints(in) THEN FALSE
  ELSE IF Pt(in, i) = Pt(out, k) THEN Embeds(in, out, i + 1, k + 1)
  ELSE Embeds(in, out, i + 1, k)

IsSubsequence(in, out) ==
  /\ out.kind = in.kind
  /\ Embeds(in, out, 0, 0)

NonDecreasingX(buf) ==
  \A i \in 1..(NumPoints(buf) - 1) : PtX(buf, i - 1) <= PtX(buf, i)

\* C1: with N > targetCount >= 3 (targetCount an integer) the result has
\* exactly targetCount points, the first is input point 0 and the last is
\* input point N-1.
C1_ExactCountAndEndpoints ==
  (/\ stage # "input"
   /\ targetPoints[2] = 1
   /\ targetPoints[1] >= 3
   /\ NumPoints(data) > targetPoints[1])
  => /\ NumPoints(sampled) = targetPoints[1]
     /\ sampled.kind = "Float32Array" => Len(sampled.elems) = 2 * targetPoints[1]
     /\ Pt(sampled, 0) = Pt(data, 0)
     /\ Pt(sampled, targetPoints[1] - 1) = Pt(data, NumPoints(data) - 1)

C1_Witness ==
  /\ stage = "sampled"
  /\ targetPoints = <<4, 1>>
  /\ NumPoints(data) = 5
  /\ NumPoints(sampled) = 4
  /\ Pt(data, 0) # Pt(data, 4)
  /\ Pt(sampled, 3) = Pt(data, 4)

\* C2: for every input and every budget the result is an order-preserving
\* subsequence of the input: its points are the input points at a strictly
\* increasing sequence of indices, so a non-decreasing input x gives a
\* non-decreasing output x.
C2_OrderPreservingSubsequence ==
  stage # "input"
  => /\ IsSubsequence(data, sampled)
     /\ NonDecreasingX(data) => NonDecreasingX(sampled)

C2_Witness ==
  /\ stage = "sampled"
  /\ NumPoints(data) = 5
  /\ NumPoints(sampled) = 4
  /\ NonDecreasingX(data)
  /\ PtX(data, 0) < PtX(data, 4)
  /\ IsSubsequence(data, sampled)

\* C3: with 1 <= N <= floor(targetCount) the result is the input itself:
\* the same buffer or array (same identity), hence the same points in the
\* same order.
C3_PassthroughIsInput ==
  (/\ stage # "input"
   /\ NumPoints(data) >= 1
   /\ NumPoints(data) <= Threshold(targetPoints))
  => sampled = data

C3_Witness ==
  /\ stage = "sampled"
  /\ NumPoints(data) = 3
  /\ targetPoints = <<7, 2>>
  /\ sampled = data

\* C4: with targetCount <= 0 or N = 0 the result has length 0, in the
\* interleaved and in the point-array representation.
C4_EmptyResult ==
  (/\ stage # "input"
   /\ (targetPoints[1] <= 0 \/ NumPoints(data) = 0))
  => /\ Len(sampled.elems) = 0
     /\ sampled.kind = data.kind

C4_Witness ==
  /\ stage = "sampled"
  /\ data.kind = "Float32Array"
  /\ Len(data.elems) = 1
  /\ targetPoints = <<3, 1>>
  /\ Len(sampled.elems) = 0

\* C5: with N >= 1, targetCount = 1 gives exactly [point 0]; targetCount = 2
\* gives [point 0, point N-1] when N >= 2 and [point 0] when N = 1.
C5_OneAndTwo ==
  (stage # "input" /\ NumPoints(data) >= 1)
  => /\ targetPoints = <<1, 1>>
          => NumPoints(sampled) = 1 /\ Pt(sampled, 0) = Pt(data, 0)
     /\ (targetPoints = <<2, 1>> /\ NumPoints(data) >= 2)
          => /\ NumPoints(sampled) = 2
             /\ Pt(sampled, 0) = Pt(data, 0)
             /\ Pt(sampled, 1) = Pt(data, NumPoints(data) - 1)
     /\ (targetPoints = <<2, 1>> /\ NumPoints(data) = 1)
          => NumPoints(sampled) = 1 /\ Pt(sampled, 0) = Pt(data, 0)

C5_Witness ==
  /\ stage = "sampled"
  /\ targetPoints = <<2, 1>>
  /\ NumPoints(data) = 5
  /\ Pt(data, 0) # Pt(data, 4)
  /\ NumPoints(sampled) = 2
  /\ Pt(sampled, 1) = Pt(data, 4)

\* C6: sampling a reduced sequence again at the same or a larger budget
\* changes nothing: with k <= k2, lttbSample(lttbSample(d, k), k2) has the
\* points of lttbSample(d, k), whose length is already <= k2.
C6_ResampleAtLargerBudget ==
  (/\ stage = "resampled"
   /\ targetPoints[1] * targetPoints2[2] <= targetPoints2[1] * targetPoints[2])
  => /\ resampled.elems = sampled.elems
     /\ resampled.kind = sampled.kind
     /\ NumPoints(sampled) <= Max(0, Threshold(targetPoints2))

C6_Witness ==
  /\ stage = "resampled"
  /\ NumPoints(data) = 5
  /\ targetPoints = <<4, 1>>
  /\ targetPoints2 = <<5, 1>>
  /\ NumPoints(sampled) = 4
  /\ resampled = sampled

\* C7: reduction does not compose under a shrinking budget: for the input
\* C7Points and the budgets 3 < 4, reducing to 4 and then to 3 keeps other
\* points than reducing to 3 directly.
C7Points == <<<<0, 0>>, <<0, 1>>, <<0, 0>>, <<1, 0>>, <<0, 1>>>>

C7_ShrinkingBudgetDiffers ==
  (/\ stage = "resampled"
   /\ Coordinates(data) = C7Points
   /\ targetPoints = <<4, 1>>
   /\ targetPoints2 = <<3, 1>>)
  => resampled.elems # lttbSample(data, targetPoints2).elems

C7_Witness ==
  /\ stage = "resampled"
  /\ Threshold(targetPoints2) < Threshold(targetPoints)
  /\ Threshold(targetPoints) < NumPoints(data)
  /\ NumPoints(resampled) = NumPoints(lttbSample(data, targetPoints2))
  /\ resampled.elems # lttbSample(data, targetPoints2).elems

\* ------------------------------------------------- the buckets of one call
\* the call has just returned, and it went through the bucket loop, with the
\* budget Threshold
BucketPath ==
  /\ stage = "sampled"
  /\ Threshold(targetPoints) >= 3
  /\ NumPoints(data) > Threshold(targetPoints)

\* the indices the first call selected
SelectedIndices ==
  IF data.kind = "Float32Array"
    THEN lttbIndicesForInterleavedXY(data.elems, Threshold(targetPoints))
    ELSE lttbIndicesForDataPoints(data.elems, Threshold(targetPoints))

BucketIds == 0..(Threshold(targetPoints) - 3)

\* the candidates the scan of bucket b visits
Candidates(b) ==
  rangeStart(NumPoints(data), Threshold(targetPoints), b)
    .. (rangeEndExclusive(NumPoints(data), Threshold(targetPoints), b) - 1)

\* the lookahead point of bucket b, as <<sumX, sumY, count>>
Lookahead(b) ==
  IF data.kind = "Float32Array"
    THEN AvgXY(data.elems, NumPoints(data), Threshold(targetPoints), b)
    ELSE AvgDP(data.elems, NumPoints(data), Threshold(targetPoints), b)

\* |area2| of candidate i against the anchor a and the average avg, with
\* area2 = (ax - avgX) * (by - ay) - (ax - bx) * (avgY - ay), in units of
\* 1 / avg[3]
Metric(a, i, avg) ==
  LET v == (PtX(data, a) * avg[3] - avg[1]) * (PtY(data, i) - PtY(data, a))
             - (PtX(data, a) - PtX(data, i)) * (avg[2] - PtY(data, a) * avg[3])
  IN  IF v < 0 THEN -v ELSE v

\* C11: in every bucket the selected index is the lowest index among the
\* candidates of maximal |area2|, computed against the previously selected
\* point (point 0 for the first bucket) and the lookahead average; the
\* winner is the anchor of the next bucket and fills the bucket's slot.
C11_LowestIndexOfMaximalArea ==
  BucketPath =>
    \A idx \in {SelectedIndices} :
      /\ idx[1] = 0
      /\ \A b \in BucketIds : \A avg \in {Lookahead(b)} :
           /\ idx[b + 2] \in Candidates(b)
           /\ \A i \in Candidates(b) :
                /\ Metric(idx[b + 1], i, avg) <= Metric(idx[b + 1], idx[b + 2], avg)
                /\ Metric(idx[b + 1], i, avg) = Metric(idx[b + 1], idx[b + 2], avg)
                     => idx[b + 2] <= i
           /\ Pt(sampled, b + 1) = Pt(data, idx[b + 2])

\* a tie between two candidates with a positive area, the earlier one kept,
\* in a bucket whose anchor is not point 0
C11_Witness ==
  /\ BucketPath
  /\ \E idx \in {SelectedIndices}, b \in BucketIds :
       /\ idx[b + 1] # 0
       /\ Metric(idx[b + 1], idx[b + 2], Lookahead(b)) > 0
       /\ \E i \in Candidates(b) :
            /\ i > idx[b + 2]
            /\ Metric(idx[b + 1], i, Lookahead(b))
                 = Metric(idx[b + 1], idx[b + 2], Lookahead(b))

\* C12: with N > targetCount >= 3, the candidates scanned for each bucket
\* are at least one index, all of them interior: none is 0 or N - 1; so is
\* the selected index.
C12_CandidatesInterior ==
  BucketPath =>
    \A b \in BucketIds :
      /\ Candidates(b) # {}
      /\ Candidates(b) \subseteq 1..(NumPoints(data) - 2)
      /\ \A idx \in {SelectedIndices} : idx[b + 2] \in 1..(NumPoints(data) - 2)

\* the last bucket of 17 points at a budget of 13, whose candidates end
\* before the last interior index
C12_Witness ==
  /\ BucketPath
  /\ NumPoints(data) = 17
  /\ Threshold(targetPoints) = 13
  /\ Candidates(10) = {14}

\* the next bucket's index range, as the lookahead takes it
NextRange(b) ==
  (FloorBucket(NumPoints(data), Threshold(targetPoints), b + 1) + 1)
    .. (Min(FloorBucket(NumPoints(data), Threshold(targetPoints), b + 2) + 1,
            NumPoints(data) - 1) - 1)

RECURSIVE SumOfX(_)
SumOfX(S) ==
  IF S = {} THEN 0
  ELSE LET j == CHOOSE j \in S : TRUE IN PtX(data, j) + SumOfX(S \ {j})

RECURSIVE SumOfY(_)
SumOfY(S) ==
  IF S = {} THEN 0
  ELSE LET j == CHOOSE j \in S : TRUE IN PtY(data, j) + SumOfY(S \ {j})

\* the lookahead of bucket b is the mean over the next bucket's range, or
\* the final point when that range is empty
LookaheadIsMeanOrLast(b) ==
  IF NextRange(b) # {}
    THEN Lookahead(b)
           = <<SumOfX(NextRange(b)), SumOfY(NextRange(b)), Cardinality(NextRange(b))>>
    ELSE Lookahead(b)
           = <<PtX(data, NumPoints(data) - 1), PtY(data, NumPoints(data) - 1), 1>>

\* C13: for every bucket the lookahead point is the arithmetic mean of
\* (x, y) over the next bucket's range when that range is non-empty and the
\* final input point when it is empty, which is the case for the last bucket.
C13_LookaheadMeanOrLastPoint ==
  BucketPath =>
    /\ \A b \in BucketIds : LookaheadIsMeanOrLast(b)
    /\ NextRange(Threshold(targetPoints) - 3) = {}

\* the index function of the input's representation, called with budget t
IndicesAt(t) ==
  IF data.kind = "Float32Array"
    THEN lttbIndicesForInterleavedXY(data.elems, t)
    ELSE lttbIndicesForDataPoints(data.elems, t)

DivisorsAt(t) ==
  IF data.kind = "Float32Array"
    THEN DivisorsXY(data.elems, t)
    ELSE DivisorsDP(data.elems, t)

\* the results of the degenerate-size checks for n points
DegenerateIndices(n) ==
  {<<>>, <<0>>, Iota(n)} \cup (IF n >= 2 THEN {<<0, n - 1>>} ELSE {})

\* C14: the division by targetCount - 2 and the bucket loop are reached
\* only with targetCount >= 3 and N > targetCount, so the divisor is
\* positive; for every other N and targetCount the result comes from the
\* degenerate-size checks, in the index functions and in lttbSample.
C14_DivisorPositive ==
  stage = "sampled" =>
    /\ \A t \in (-1)..(MaxTarget + 1) :
         /\ \A d \in DivisorsAt(t) : d > 0
         /\ DivisorsAt(t) # {} <=> (t >= 3 /\ NumPoints(data) > t)
         /\ DivisorsAt(t) = {} => IndicesAt(t) \in DegenerateIndices(NumPoints(data))
    /\ \A d \in lttbSampleDivisors(data, targetPoints) : d > 0
    /\ lttbSampleDivisors(data, targetPoints) # {} <=> BucketPath
    /\ lttbSampleDivisors(data, targetPoints) = {}
         => \/ sampled = data
            \/ NumPoints(sampled) = 0
            \/ Coordinates(sampled) = <<Coordinates(data)[1]>>
            \/ Coordinates(sampled)
                 = <<Coordinates(data)[1], Coordinates(data)[NumPoints(data)]>>

\* more than two points at a budget of 2: the early return for two points,
\* the last one before the division
C14_Witness ==
  /\ stage = "sampled"
  /\ Threshold(targetPoints) = 2
  /\ NumPoints(data) = 5
  /\ NumPoints(sampled) = 2
  /\ lttbSampleDivisors(data, targetPoints) = {}

\* C18: with N > targetCount >= 3 the range computed for each bucket,
\* [floor(bucketSize * b) + 1, min(floor(bucketSize * (b + 1)) + 1, N - 1)),
\* is not empty, with bucketSize exact and with bucketSize as the code
\* rounds it: the defensive adjustment of an empty range is never taken.
C18_GuardNeverTaken ==
  BucketPath =>
    \A b \in BucketIds, n \in {NumPoints(data)}, t \in {Threshold(targetPoints)} :
      /\ MathFloor((n - 2) * b, t - 2) + 1
           < Min(MathFloor((n - 2) * (b + 1), t - 2) + 1, n - 1)
      /\ FloorBucket(n, t, b) + 1 < Min(FloorBucket(n, t, b + 1) + 1, n - 1)
      /\ rangeStart(n, t, b) = FloorBucket(n, t, b) + 1
      /\ rangeEndExclusive(n, t, b) = Min(FloorBucket(n, t, b + 1) + 1, n - 1)

\* 17 points at a budget of 15: the last bucket's computed range is the one
\* index 14, its end being one less than with an exact bucketSize
C18_Witness ==
  /\ BucketPath
  /\ NumPoints(data) = 17
  /\ Threshold(targetPoints) = 15
  /\ FloorBucket(17, 15, 12) + 1 = 14
  /\ Min(FloorBucket(17, 15, 13) + 1, 16) = 15

\* C19: with N > targetCount >= 3 the candidate ranges of the
\* targetCount - 2 buckets partition the interior indices: consecutive in
\* bucket order, pairwise disjoint, with union 1 .. N - 2; output slot k
\* holds an index of bucket k - 1.
C19_RangesPartitionInterior ==
  BucketPath =>
    /\ \A b \in BucketIds : \A c \in BucketIds :
         b # c => Candidates(b) \cap Candidates(c) = {}
    /\ \A b \in BucketIds \ {0} :
         rangeStart(NumPoints(data), Threshold(targetPoints), b)
           = rangeEndExclusive(NumPoints(data), Threshold(targetPoints), b - 1)
    /\ UNION {Candidates(b) : b \in BucketIds} = 1..(NumPoints(data) - 2)
    /\ \A idx \in {SelectedIndices} :
         \A k \in 1..(Threshold(targetPoints) - 2) : idx[k + 1] \in Candidates(k - 1)

\* C20: for the same (x, y) values and the same targetCount, the
\* interleaved-buffer path and the point-array path, with tuple points or
\* object points, select the same indices, and the outputs hold the same
\* points.
C20_RepresentationsAgree ==
  stage = "sampled" =>
    \A pts \in {Coordinates(data)}, t \in {Threshold(targetPoints)} :
      \A idx \in {lttbIndicesForInterleavedXY(Interleave(pts), t)} :
        /\ lttbIndicesForDataPoints(Encode(pts, "tuples").elems, t) = idx
        /\ lttbIndicesForDataPoints(Encode(pts, "objects").elems, t) = idx
        /\ (0 < t /\ t < Len(pts))
             => Coordinates(sampled) = [k \in 1..Len(idx) |-> pts[idx[k] + 1]]

\* five tuple points reduced to four, the later candidate of the second
\* bucket selected, as for the same points in an interleaved buffer
C20_Witness ==
  /\ BucketPath
  /\ data.kind = "Array"
  /\ isTupleDataPoint(data.elems[1])
  /\ NumPoints(data) = 5
  /\ Threshold(targetPoints) = 4
  /\ SelectedIndices = <<0, 1, 3, 4>>
  /\ lttbIndicesForInterleavedXY(Interleave(Coordinates(data)), 4) = <<0, 1, 3, 4>>

\* ------------------------------------------- coordinates that are not finite
\* |area2| of candidate i against the anchor and the lookahead avg, as a
\* number that may be NaN or Infinity
NumMetric(anchor, i, avg) ==
  Abs(area2(PtX(data, anchor), PtY(data, anchor), PtX(data, i), PtY(data, i),
            avg[1], avg[2], avg[3]))

\* an operand of candidate i's area metric is not finite
NonFiniteOperand(anchor, i, avg) ==
  \E v \in {PtX(data, anchor), PtY(data, anchor), PtX(data, i), PtY(data, i),
            avg[1], avg[2]} : ~NumIsFinite(v)

\* C17 as stated: a candidate whose area metric involves an operand that is
\* not finite never replaces the running maximum: it is selected only when
\* every candidate of its bucket is such a candidate, and then the selected
\* index is the start of the bucket's range.
C17_NonFiniteNeverSelected ==
  BucketPath =>
    \A idx \in {SelectedIndices} : \A b \in BucketIds : \A avg \in {Lookahead(b)} :
      NonFiniteOperand(idx[b + 1], idx[b + 2], avg)
      => /\ idx[b + 2] = rangeStart(NumPoints(data), Threshold(targetPoints), b)
         /\ \A i \in Candidates(b) : NonFiniteOperand(idx[b + 1], i, avg)

\* C17, amended: a candidate whose area metric is NaN never replaces the
\* running maximum: it is selected only when the metric of every candidate
\* of its bucket is NaN, and then the selected index is the start of the
\* bucket's range; no candidate's metric exceeds the selected one's (an
\* infinite metric does replace a finite maximum).
C17_NaNNeverSelected ==
  BucketPath =>
    \A idx \in {SelectedIndices} : \A b \in BucketIds : \A avg \in {Lookahead(b)} :
      /\ NumIsNaN(NumMetric(idx[b + 1], idx[b + 2], avg))
         => /\ idx[b + 2] = rangeStart(NumPoints(data), Threshold(targetPoints), b)
            /\ \A i \in Candidates(b) : NumIsNaN(NumMetric(idx[b + 1], i, avg))
      /\ \A i \in Candidates(b) :
           ~NumGt(NumMetric(idx[b + 1], i, avg), NumMetric(idx[b + 1], idx[b + 2], avg))

\* a bucket of two candidates, the first with a NaN metric and the second
\* with a finite one: the second is selected
C17_Witness ==
  /\ BucketPath
  /\ NumPoints(data) = 4
  /\ SelectedIndices = <<0, 2, 3>>
  /\ NumIsNaN(NumMetric(0, 1, Lookahead(0)))
  /\ NumIsFinite(NumMetric(0, 2, Lookahead(0)))

\* ======================================= properties: animation controller
\* this step calls the animation's onUpdate / onComplete
OnUpdateInvoked(id) == pc = "loop" /\ pc' = "onUpdate" /\ cur'.id = id
OnCompleteInvoked(id) == pc = "onUpdate" /\ pc' = "onComplete" /\ cur.id = id

\* elapsed >= duration on the numbers as given (false for NaN and Infinity)
ElapsedReachesDuration ==
  \/ cur.anim.duration[1] = "-Infinity"
  \/ /\ cur.anim.duration[1] = "finite"
     /\ Elapsed(ts, cur.startTime) >= cur.anim.duration[2]

\* elapsed >= duration, or the duration is not finite
Due == ElapsedReachesDuration \/ cur.anim.duration[1] # "finite"

\* C8 as stated: an animation that is not cancelled has its onComplete
\* invoked exactly once, on the update where elapsed >= duration and after
\* that update's onUpdate, and no later update invokes its callbacks.
C8_CompletesWhenElapsedReachesDuration ==
  /\ [](\A id \in AnimIds : completes[id] <= 1)
  /\ [](pc = "onComplete" => ElapsedReachesDuration)
  /\ [][(/\ pc = "onUpdate"
         /\ pc' # "onUpdate"
         /\ ~cancelled[cur.id]
         /\ cur.anim.hasOnComplete
         /\ ElapsedReachesDuration) => OnCompleteInvoked(cur.id)]_vars
  /\ [][\A id \in AnimIds :
          completes[id] = 1 => ~OnUpdateInvoked(id) /\ ~OnCompleteInvoked(id)]_vars

\* C8, amended: an animation that is not cancelled has its onComplete
\* invoked at most once: on the first update that processes it when elapsed
\* >= duration or the duration is not finite (NaN and +-Infinity count as 0),
\* after that update's onUpdate; no later update invokes its callbacks.
C8_CompletesOnceWhenDue ==
  /\ [](\A id \in AnimIds : completes[id] <= 1)
  /\ [](pc = "onComplete" => Due)
  /\ [][(/\ pc = "onUpdate"
         /\ pc' # "onUpdate"
         /\ ~cancelled[cur.id]
         /\ cur.anim.hasOnComplete
         /\ Due) => OnCompleteInvoked(cur.id)]_vars
  /\ [][\A id \in AnimIds :
          completes[id] = 1 => ~OnUpdateInvoked(id) /\ ~OnCompleteInvoked(id)]_vars

C8_Witness ==
  /\ pc = "onComplete"
  /\ cur.anim.duration = Finite(1)
  /\ Elapsed(ts, cur.startTime) = 1
  /\ completes[cur.id] = 1
  /\ ~cancelled[cur.id]
  /\ updateCalls >= 2

\* C9: once cancel(id) was called for an animation that had not completed,
\* no update invokes its onUpdate, and its onComplete is never invoked.
C9_NoCallbackAfterCancel ==
  /\ [](\A id \in AnimIds : cancelled[id] => completes[id] = 0)
  /\ [][\A id \in AnimIds :
          cancelled[id] => ~OnUpdateInvoked(id) /\ ~OnCompleteInvoked(id)]_vars

C9_Witness ==
  /\ pc = "onUpdate"
  /\ cur.id = 2
  /\ cancelled[1]
  /\ lastValue[1] # <<>>
  /\ completes[1] = 0
  /\ cur.startTime[2] < ts[2]

\* C10: on the update at which an animation completes, the value passed to
\* onUpdate is exactly the target "to" (for arrays: element by element, with
\* the length of "to"), whatever the easing function.
C10_FinalValueIsTarget ==
  (pc = "onUpdate" /\ cur.shouldComplete)
  => lastValue[cur.id] = IF cur.anim.kind = "scalar" THEN <<cur.anim.to>> ELSE cur.anim.to

C16_CancelledInCallbackSilent ==
  /\ [](\A id \in AnimIds :
          cancelledNow[id] => cancelled[id] /\ id \notin DOMAIN animations)
  /\ [][\A id \in AnimIds :
          (cancelledNow[id] \/ cancelled[id])
          => ~OnUpdateInvoked(id) /\ ~OnCompleteInvoked(id)]_vars
  /\ [][(pc = "onUpdate" /\ cancelledNow[cur.id]) => pc' # "onComplete"]_vars
  /\ [][(pc = "loop" /\ cancelledNow[Head(ids)]) => pc' # "onUpdate"]_vars

\* cancelAll() inside animation 1's onUpdate, on the update where it is due
\* and has an onComplete, with animation 2 still to be visited
C16_Witness ==
  /\ pc = "onUpdate"
  /\ cur.id = 1
  /\ cur.shouldComplete
  /\ cur.anim.hasOnComplete
  /\ cancelledNow[1]
  /\ cancelledNow[2]
  /\ ids = <<1, 2>>

\* C21: the start time of an animation is unset when animate() returns and
\* until an update processes it; the first update that processes it fixes it
\* to that update's timestamp, with elapsed 0, and it never changes
\* afterwards; elapsed is timestamp - startTime, or 0 for a timestamp before
\* the start time; update() with a timestamp that is not finite changes
\* nothing and invokes no callback: only finite timestamps are processed.
C21_StartTimeFixedAtFirstUpdate ==
  /\ [](\A id \in DOMAIN animations :
          animations[id].startTime[1] = "null" <=> lastValue[id] = <<>>)
  /\ [][\A id \in AnimIds :
          (id = nextId /\ nextId' = nextId + 1)
          => animations'[id].startTime[1] = "null"]_vars
  /\ [][\A id \in AnimIds :
          (OnUpdateInvoked(id) /\ animations[id].startTime[1] = "null")
          => /\ animations'[id].startTime = ts
             /\ cur'.startTime = ts
             /\ cur'.elapsed = 0]_vars
  /\ [][\A id \in DOMAIN animations \cap DOMAIN animations' :
          animations[id].startTime[1] # "null"
          => animations'[id].startTime = animations[id].startTime]_vars
  /\ [](pc \in {"onUpdate", "onComplete"}
          => /\ isFinite(cur.startTime)
             /\ cur.elapsed = IF ts[2] < cur.startTime[2]
                                THEN 0 ELSE ts[2] - cur.startTime[2]
             /\ cur.shouldComplete
                  <=> (normalizeDurationMs(cur.anim.duration) <= cur.elapsed))
  /\ [](isFinite(ts))
  /\ [][(updateCalls' # updateCalls /\ ~(pc' = "loop" /\ animations # <<>>))
        => UNCHANGED <<animations, nextId, pc, ts, ids, cur, completes, lastValue>>]_vars

\* an animation started at timestamp 1 is in its onUpdate at timestamp 0:
\* elapsed is 0 and it does not complete
C21_Witness ==
  /\ pc = "onUpdate"
  /\ cur.startTime = Finite(1)
  /\ ts = Finite(0)
  /\ cur.elapsed = 0
  /\ cur.anim.duration = Finite(1)
  /\ ~cur.shouldComplete
  /\ animations[cur.id].startTime = Finite(1)

====
